---- MODULE Spec2Model ----
(***************************************************************************)
(* Order-book engine of keyrock (src/src/core/mod.rs): orders, the sorted *)
(* diff, the depth-capped book, the two-way Merger behind                  *)
(* OrderBook::update, the constructors of diffs and books, and the         *)
(* SummaryOrderBook that merges the books of the exchanges; and the        *)
(* Binance feed (src/src/feeds/binance/mod.rs): its event handlers and     *)
(* the construction of its Config.                                         *)
(*                                                                         *)
(* Prices and amounts are validated floats in the source.  Only their      *)
(* total order and the distinguished amount 0 matter to the engine, so a   *)
(* price is a positive integer and an amount a natural number here.        *)
(***************************************************************************)
EXTENDS Integers, Sequences, FiniteSets, TLC

\* ------------------------------------------------------------------ bounds
\* OrderBook<QUOTE, COUNT> is generic in its depth COUNT; the aliases
\* OrderBookAsks/OrderBookBids instantiate it with BEST_ORDER_BOOK_SIZE.
\* The model checks the generic code at a small depth.
COUNT == 2
\* Prices are 1..MaxPrice.
MaxPrice == 3
\* Longest vector handed to a constructor.
MaxLen == 3
\* Longest vector handed to Book::new where the orders past the cap can be
\* arranged in more than one way.
MaxNewLen == 4
\* The books stored in the summary hold prices 1..MaxSummaryPrice.
MaxSummaryPrice == 2
\* The depth of the books of the summary and of its streams (10 in the
\* source), checked at a small depth.
BEST_ORDER_BOOK_SIZE == 3
\* Floats of one class and sign come in magnitudes 1..MaxMagnitude.
MaxMagnitude == 8
\* The valid prices of the feed's events are 1.0 .. MaxWirePrice.
MaxWirePrice == 1
\* Longest bids or asks of an event of the feed.
MaxWireLen == 2
\* Messages the feed sends on the channel before the model stops it.
MaxSent == 2
\* Frames the stack of a thread holds.
MaxStack == 64

\* ------------------------------------------------------------------ data
ASK == FALSE
BID == TRUE

Prices == 1..MaxPrice
\* 0 is the empty amount (Amount::default()); 1 and 2 are two sizes.
Amounts == {0, 1, 2}

Order == [price : Prices, amount : Amounts]

Order_new(p, a) == [price |-> p, amount |-> a]

Order_is_empty(o) == o.amount = 0

Order_empty(o) == [price |-> o.price, amount |-> 0]

OrderBookError == {"HasOrderWithNotUniquePrice", "HasOrderWithEmptyAmount",
                   "OrdersNotSortedAccordingToQuoteType"}

Ok(v) == [ok |-> TRUE, val |-> v, err |-> "none"]

Err(e) == [ok |-> FALSE, val |-> <<>>, err |-> e]

\* Every Vec<Order> of length at most MaxLen.
Vectors == UNION {[1..len -> Order] : len \in 0..MaxLen}

\* Every Vec<Order> of length at most MaxNewLen.
LongVectors == UNION {[1..len -> Order] : len \in 0..MaxNewLen}

\* ------------------------------------------------------------- helpers
Min(a, b) == IF a <= b THEN a ELSE b

\* iter.take(len)
Take(s, len) == SubSeq(s, 1, Min(Len(s), len))

\* iter.filter(|order| !order.is_empty())
RECURSIVE FilterNonEmpty(_)
FilterNonEmpty(s) ==
  IF s = <<>> THEN <<>>
  ELSE IF Order_is_empty(Head(s)) THEN FilterNonEmpty(Tail(s))
       ELSE <<Head(s)>> \o FilterNonEmpty(Tail(s))

\* Price::cmp
PriceCmp(l, r) == IF l < r THEN "Less" ELSE IF l = r THEN "Equal" ELSE "Greater"

\* order_comparator::<QUOTE>()
order_comparator(q, l, r) ==
  IF q = ASK THEN PriceCmp(l.price, r.price) ELSE PriceCmp(r.price, l.price)

\* order_partial_comparator::<QUOTE>(): Some(ordering) for every pair of
\* valid prices.
order_partial_comparator(q, l, r) ==
  IF q = ASK THEN PriceCmp(l.price, r.price) ELSE PriceCmp(r.price, l.price)

\* slice::is_sorted_by with a partial comparator: no adjacent pair compares
\* Greater.
is_sorted_by(q, s) ==
  \A i \in 1..(Len(s) - 1) : order_partial_comparator(q, s[i], s[i + 1]) # "Greater"

\* Every arrangement of the elements of s.
Arrangements(s) ==
  {[i \in 1..Len(s) |-> s[f[i]]] : f \in Permutations(1..Len(s))}

\* slice::sort_unstable_by(order_comparator): the order of elements that
\* compare Equal is unspecified, so every sorted arrangement is an outcome.
sort_unstable_by(q, s) ==
  {p \in Arrangements(s) :
     \A i \in 1..(Len(p) - 1) : order_comparator(q, p[i], p[i + 1]) # "Greater"}

\* select_nth_unstable_by(index, cmp).0.sort_unstable_by(cmp), index being
\* zero-based: the element at index is in its sorted position, the elements
\* before it are sorted, the elements after it compare not less, in an
\* unspecified order.
select_nth_then_sort_left(q, s, index) ==
  {p \in Arrangements(s) :
     /\ \A i \in 1..index : order_comparator(q, p[i], p[i + 1]) # "Greater"
     /\ \A j \in (index + 2)..Len(p) :
          order_comparator(q, p[index + 1], p[j]) # "Greater"}

\* ------------------------------------------------------------- Merger
\* Slips of the merge and of update, used to test what the properties below
\* can tell apart.
RECURSIVE Merger_book_wins(_, _, _)
Merger_book_wins(q, bk, df) ==
  IF bk = <<>> /\ df = <<>> THEN <<>>
  ELSE LET which == IF bk # <<>> /\ df # <<>>
                      THEN order_comparator(q, Head(bk), Head(df))
                    ELSE IF bk # <<>> THEN "Less" ELSE "Greater"
       IN  CASE which = "Less" -> <<Head(bk)>> \o Merger_book_wins(q, Tail(bk), df)
             [] which = "Equal" -> <<Head(bk)>> \o Merger_book_wins(q, Tail(bk), Tail(df))
             [] which = "Greater" -> <<Head(df)>> \o Merger_book_wins(q, bk, Tail(df))

RECURSIVE Merger_stops_with_diff(_, _, _)
Merger_stops_with_diff(q, bk, df) ==
  IF df = <<>> THEN <<>>
  ELSE LET which == IF bk # <<>>
                      THEN order_comparator(q, Head(bk), Head(df))
                    ELSE "Greater"
       IN  CASE which = "Less" -> <<Head(bk)>> \o Merger_stops_with_diff(q, Tail(bk), df)
             [] which = "Equal" -> <<Head(df)>> \o Merger_stops_with_diff(q, Tail(bk), Tail(df))
             [] which = "Greater" -> <<Head(df)>> \o Merger_stops_with_diff(q, bk, Tail(df))

RECURSIVE Merger_equal_keeps_both(_, _, _)
Merger_equal_keeps_both(q, bk, df) ==
  IF bk = <<>> /\ df = <<>> THEN <<>>
  ELSE LET which == IF bk # <<>> /\ df # <<>>
                      THEN order_comparator(q, Head(bk), Head(df))
                    ELSE IF bk # <<>> THEN "Less" ELSE "Greater"
       IN  CASE which = "Less" -> <<Head(bk)>> \o Merger_equal_keeps_both(q, Tail(bk), df)
             [] which = "Equal" -> <<Head(bk)>> \o Merger_equal_keeps_both(q, Tail(bk), df)
             [] which = "Greater" -> <<Head(df)>> \o Merger_equal_keeps_both(q, bk, Tail(df))

\* Merger::next run to exhaustion: the sequence of orders the iterator emits.
RECURSIVE Merger(_, _, _)
Merger(q, bk, df) ==
  IF bk = <<>> /\ df = <<>> THEN <<>>
  ELSE LET which == IF bk # <<>> /\ df # <<>>
                      THEN order_comparator(q, Head(bk), Head(df))
                    ELSE IF bk # <<>> THEN "Less" ELSE "Greater"
       IN  CASE which = "Less" -> <<Head(bk)>> \o Merger(q, Tail(bk), df)
             [] which = "Equal" -> <<Head(df)>> \o Merger(q, Tail(bk), Tail(df))
             [] which = "Greater" -> <<Head(df)>> \o Merger(q, bk, Tail(df))

\* update that forgets the filter, and update that caps before it filters.
OrderBook_update_keeps_empty(q, bk, df) == Take(Merger(q, bk, df), COUNT)

OrderBook_update_caps_first(q, bk, df) == FilterNonEmpty(Take(Merger(q, bk, df), COUNT))

\* OrderBook::update
OrderBook_update(q, bk, df) ==
  Take(FilterNonEmpty(Merger(q, bk, df)), COUNT)

\* The same merge with no depth cap (the reference book of an exchange that
\* keeps every level).
UpdateUncapped(q, bk, df) == FilterNonEmpty(Merger(q, bk, df))

\* ------------------------------------------------------- OrderBookDiff
\* The uniqueness fold that never moves its reference price past the first.
OrderBookDiff_unique_against_first(orders) ==
  LET is_unique == \A i \in 2..Len(orders) : orders[1].price # orders[i].price
  IN  IF is_unique THEN Ok(orders) ELSE Err("HasOrderWithNotUniquePrice")

\* OrderBookDiff::new_sorted_unchecked
OrderBookDiff_new_sorted_unchecked(orders) ==
  LET is_unique == \A i \in 1..(Len(orders) - 1) : orders[i].price # orders[i + 1].price
  IN  IF is_unique THEN Ok(orders) ELSE Err("HasOrderWithNotUniquePrice")

\* new_sorted that trusts its caller.
OrderBookDiff_new_sorted_trusting(q, orders) == OrderBookDiff_new_sorted_unchecked(orders)

\* OrderBookDiff::new_sorted
OrderBookDiff_new_sorted(q, orders) ==
  IF ~is_sorted_by(q, orders) THEN Err("OrdersNotSortedAccordingToQuoteType")
  ELSE OrderBookDiff_new_sorted_unchecked(orders)

\* OrderBookDiff::new: the set of results the unstable sort allows.
OrderBookDiff_new(q, orders) ==
  {OrderBookDiff_new_sorted_unchecked(s) : s \in sort_unstable_by(q, orders)}

\* ----------------------------------------------------------- OrderBook
\* OrderBook::new_unchecked
OrderBook_new_unchecked(orders) == Take(orders, COUNT)

\* A slip of the validation: the repeated price is reported before the
\* empty amount.
OrderBook_new_sorted_unchecked_unique_first(orders) ==
  LET m == Min(Len(orders), 1 + COUNT)
      is_unique == \A i \in 1..(m - 1) : orders[i].price # orders[i + 1].price
      is_empty == \E i \in 1..m : Order_is_empty(orders[i])
  IN  IF ~is_unique THEN Err("HasOrderWithNotUniquePrice")
      ELSE IF is_empty THEN Err("HasOrderWithEmptyAmount")
      ELSE Ok(OrderBook_new_unchecked(orders))

\* OrderBook::new_sorted_unchecked: the fold runs over the first order and
\* rest.iter().take(COUNT).
OrderBook_new_sorted_unchecked(orders) ==
  LET m == Min(Len(orders), 1 + COUNT)
      is_unique == \A i \in 1..(m - 1) : orders[i].price # orders[i + 1].price
      is_empty == \E i \in 1..m : Order_is_empty(orders[i])
  IN  IF is_empty THEN Err("HasOrderWithEmptyAmount")
      ELSE IF ~is_unique THEN Err("HasOrderWithNotUniquePrice")
      ELSE Ok(OrderBook_new_unchecked(orders))

\* A slip of new_sorted: the order of the whole vector is verified.
OrderBook_new_sorted_whole(q, orders) ==
  IF ~is_sorted_by(q, orders)
    THEN Err("OrdersNotSortedAccordingToQuoteType")
  ELSE OrderBook_new_sorted_unchecked(orders)

\* OrderBook::new_sorted
OrderBook_new_sorted(q, orders) ==
  IF ~is_sorted_by(q, SubSeq(orders, 1, Min(Len(orders), COUNT)))
    THEN Err("OrdersNotSortedAccordingToQuoteType")
  ELSE OrderBook_new_sorted_unchecked(orders)

\* OrderBook::new: the set of results the unstable selection allows.
OrderBook_new(q, orders) ==
  IF orders = <<>> THEN {Ok(<<>>)}
  ELSE LET index == Min(Len(orders), COUNT) - 1
       IN  {OrderBook_new_sorted_unchecked(s) :
              s \in select_nth_then_sort_left(q, orders, index)}

\* ------------------------------------------------- values in circulation
\* The diffs Diff::new and Diff::new_sorted hand out, per side.
DiffsOf(q) ==
  UNION {{r.val : r \in {x \in OrderBookDiff_new(q, v)
                                 \cup {OrderBookDiff_new_sorted(q, v)} : x.ok}} :
           v \in Vectors}

DiffsAsk == DiffsOf(ASK)

DiffsBid == DiffsOf(BID)

Diffs(q) == IF q = ASK THEN DiffsAsk ELSE DiffsBid

\* What a snapshot leaves when no depth cap is applied: every level of the
\* vector in Side order.  It is defined when the whole vector is a valid book
\* content (distinct prices, no empty order).
Reference(q, orders) ==
  LET sorted == CHOOSE s \in sort_unstable_by(q, orders) : TRUE
  IN  IF /\ \A i, j \in 1..Len(orders) : i # j => orders[i].price # orders[j].price
         /\ \A i \in 1..Len(orders) : ~Order_is_empty(orders[i])
        THEN [known |-> TRUE, levels |-> sorted]
      ELSE [known |-> FALSE, levels |-> <<>>]

\* The books Book::new hands out, each with its uncapped reference.
SnapshotsNewOf(q) ==
  UNION {{[book |-> r.val, ref |-> Reference(q, v)] :
            r \in {x \in OrderBook_new(q, v) : x.ok}} : v \in Vectors}

SnapshotsNewAsk == SnapshotsNewOf(ASK)

SnapshotsNewBid == SnapshotsNewOf(BID)

SnapshotsNew(q) == IF q = ASK THEN SnapshotsNewAsk ELSE SnapshotsNewBid

\* The books Book::new_sorted hands out, each with its uncapped reference
\* (defined when the whole vector is sorted, as the constructor's name asks).
SnapshotsSortedOf(q) ==
  {[book |-> OrderBook_new_sorted(q, v).val,
     ref |-> IF is_sorted_by(q, v) THEN Reference(q, v)
             ELSE [known |-> FALSE, levels |-> <<>>]] :
     v \in {x \in Vectors : OrderBook_new_sorted(q, x).ok}}

SnapshotsSortedAsk == SnapshotsSortedOf(ASK)

SnapshotsSortedBid == SnapshotsSortedOf(BID)

SnapshotsSorted(q) == IF q = ASK THEN SnapshotsSortedAsk ELSE SnapshotsSortedBid

\* default_amount of the test-suite: the diff with every amount set to zero.
EmptyAmount(d) == [i \in 1..Len(d) |-> Order_empty(d[i])]

\* ------------------------------------------------------------- primitives
\* An f64 by what the validation looks at: its category
\* (std::num::FpCategory), its sign bit, and a magnitude (the payload of a
\* NaN) that tells the values of one category and sign apart.
FpCategory == {"Nan", "Infinite", "Zero", "Subnormal", "Normal"}

F64 ==
  [class : {"Nan", "Subnormal", "Normal"}, negative : BOOLEAN, mag : 1..MaxMagnitude]
    \cup [class : {"Infinite", "Zero"}, negative : BOOLEAN, mag : {1}]

\* f64::classify
classify(x) == x.class

\* f64::is_normal
is_normal(x) == classify(x) = "Normal"

\* f64::is_sign_positive
is_sign_positive(x) == ~x.negative

\* A slip of Price::new: value > 0.0 in place of the test for a normal float.
Price_new_positive(x) ==
  IF classify(x) \notin {"Nan", "Zero"} /\ is_sign_positive(x) THEN Ok(x) ELSE Err(x)

\* Price::new
Price_new(x) ==
  IF is_normal(x) /\ is_sign_positive(x) THEN Ok(x) ELSE Err(x)

\* value < 0.0: no NaN and neither zero is below zero.
less_than_zero(x) == x.negative /\ classify(x) \notin {"Nan", "Zero"}

\* Amount::new
Amount_new(x) ==
  IF classify(x) \in {"Nan", "Infinite", "Subnormal"} THEN Err(x)
  ELSE IF less_than_zero(x) THEN Err(x)
  ELSE Ok(x)

\* ------------------------------------------------------------ the summary
\* enum Exchange, in Exchange::iter() order.
Exchanges == <<"Binance", "Bitstamp">>

Exchange == {Exchanges[i] : i \in 1..Len(Exchanges)}

\* exchange as usize, counted from 1 as the positions of a sequence are.
Ordinal(e) == CHOOSE i \in 1..Len(Exchanges) : Exchanges[i] = e

SummaryOrder(e, o) == [exchange |-> e, order |-> o]

\* SummaryOrderBook::default(): one slot per exchange, holding empty books.
SummaryOrderBook_default ==
  [i \in 1..Len(Exchanges) |-> [exchange |-> Exchanges[i], bids |-> <<>>, asks |-> <<>>]]

\* A slip of the closure: on equal prices the smaller amount goes first.
quotes_first_smaller_amount(q, l, r) ==
  LET c == IF q = ASK THEN PriceCmp(l.order.price, r.order.price)
           ELSE PriceCmp(r.order.price, l.order.price)
  IN  CASE c = "Less" -> TRUE
        [] c = "Equal" -> l.order.amount < r.order.amount
        [] c = "Greater" -> FALSE

\* The closure handed to kmerge_by: l goes before r.
quotes_first(q, l, r) ==
  LET c == IF q = ASK THEN PriceCmp(l.order.price, r.order.price)
           ELSE PriceCmp(r.order.price, l.order.price)
  IN  CASE c = "Less" -> TRUE
        [] c = "Equal" -> l.order.amount > r.order.amount
        [] c = "Greater" -> FALSE

\* A slip of the merge: the streams are emitted one after the other.
RECURSIVE kmerge_by_chained(_, _)
kmerge_by_chained(q, streams) ==
  IF streams = <<>> THEN {<<>>}
  ELSE {Head(streams) \o t : t \in kmerge_by_chained(q, Tail(streams))}

\* itertools::kmerge_by keeps the streams that are not exhausted in a binary
\* heap ordered by their heads.  heap[p] sinks while a child's head goes
\* before its own; of two children the right one is taken only if its head
\* goes before the left one's.
RECURSIVE sift_down(_, _, _)
sift_down(q, heap, p) ==
  LET l == 2 * p
      r == 2 * p + 1
      less(x, y) == quotes_first(q, Head(heap[x]), Head(heap[y]))
      swap(x, y) == [heap EXCEPT ![x] = heap[y], ![y] = heap[x]]
  IN  IF r <= Len(heap)
        THEN LET c == IF less(r, l) THEN r ELSE l
             IN  IF ~less(c, p) THEN heap ELSE sift_down(q, swap(p, c), c)
      ELSE IF l = Len(heap) /\ less(l, p) THEN swap(p, l)
      ELSE heap

\* heapify: sift_down from the last parent back to the root.
RECURSIVE heapify_from(_, _, _)
heapify_from(q, heap, p) ==
  IF p < 1 THEN heap ELSE heapify_from(q, sift_down(q, heap, p), p - 1)

\* KMergeBy::next until the heap is empty: the head of the root stream is
\* emitted, the stream steps on (or, exhausted, is replaced by the last
\* stream of the heap), and the root sinks to its place.
RECURSIVE kmerge_next(_, _)
kmerge_next(q, heap) ==
  IF heap = <<>> THEN <<>>
  ELSE LET stepped == IF Tail(heap[1]) # <<>> THEN [heap EXCEPT ![1] = Tail(heap[1])]
                      ELSE IF Len(heap) = 1 THEN <<>>
                      ELSE [i \in 1..(Len(heap) - 1) |->
                              IF i = 1 THEN heap[Len(heap)] ELSE heap[i]]
       IN  <<Head(heap[1])>> \o kmerge_next(q, sift_down(q, stepped, 1))

\* kmerge_by(streams, first): the heap is built from the streams that are
\* not empty, in the order given.  The sequence it emits, as a set of one.
kmerge_by(q, streams) ==
  LET heap == SelectSeq(streams, LAMBDA st : st # <<>>)
  IN  {kmerge_next(q, heapify_from(q, heap, Len(heap) \div 2))}

\* A slip of the stream: the books of the other side are read.
SlotStream_other_side(q, slot) ==
  LET orders == IF q = ASK THEN slot.bids ELSE slot.asks
  IN  [i \in 1..Len(orders) |-> SummaryOrder(slot.exchange, orders[i])]

\* The stream of one slot: its orders on side q tagged with its exchange.
SlotStream(q, slot) ==
  LET orders == IF q = ASK THEN slot.asks ELSE slot.bids
  IN  [i \in 1..Len(orders) |-> SummaryOrder(slot.exchange, orders[i])]

\* A slip of quotes: the merge is not cut at the depth of the books.
SummaryOrderBook_quotes_uncut(q, bks) ==
  kmerge_by(q, [i \in DOMAIN bks |-> SlotStream(q, bks[i])])

\* SummaryOrderBook::quotes::<QUOTE>(), as a set of one sequence.
SummaryOrderBook_quotes(q, bks) ==
  {Take(m, BEST_ORDER_BOOK_SIZE) :
     m \in kmerge_by(q, [i \in DOMAIN bks |-> SlotStream(q, bks[i])])}

\* An f64 as far as spread produces it: NaN, an infinity or a difference.
NAN == [class |-> "nan", value |-> 0]

INFINITY == [class |-> "infinite", value |-> 1]

NEG_INFINITY == [class |-> "infinite", value |-> -1]

Finite(x) == [class |-> "finite", value |-> x]

\* A slip of spread: two empty streams are taken for missing asks.
SummaryOrderBook_spread_no_nan(bs, as) ==
  CASE as = <<>> -> INFINITY
    [] bs = <<>> /\ as # <<>> -> NEG_INFINITY
    [] OTHER -> Finite(Head(bs).order.price - Head(as).order.price)

\* A slip of spread: the best ask minus the best bid.
SummaryOrderBook_spread_ask_minus_bid(bs, as) ==
  CASE bs = <<>> /\ as = <<>> -> NAN
    [] bs # <<>> /\ as = <<>> -> INFINITY
    [] bs = <<>> /\ as # <<>> -> NEG_INFINITY
    [] OTHER -> Finite(Head(as).order.price - Head(bs).order.price)

\* SummaryOrderBook::spread(bids, asks)
SummaryOrderBook_spread(bs, as) ==
  CASE bs = <<>> /\ as = <<>> -> NAN
    [] bs # <<>> /\ as = <<>> -> INFINITY
    [] bs = <<>> /\ as # <<>> -> NEG_INFINITY
    [] OTHER -> Finite(Head(bs).order.price - Head(as).order.price)

\* A slip of reset: the slot is found by counting from the wrong end.
SummaryOrderBook_reset_wrong_slot(bks, e, bs, as) ==
  [bks EXCEPT ![Len(Exchanges) + 1 - Ordinal(e)] = [exchange |-> e, bids |-> bs, asks |-> as]]

\* A slip of reset: the asks of the slot are left as they were.
SummaryOrderBook_reset_keeps_asks(bks, e, bs, as) ==
  [bks EXCEPT ![Ordinal(e)] = [exchange |-> e, bids |-> bs, asks |-> @.asks]]

\* SummaryOrderBook::reset(exchange, bids, asks)
SummaryOrderBook_reset(bks, e, bs, as) ==
  [bks EXCEPT ![Ordinal(e)] = [exchange |-> e, bids |-> bs, asks |-> as]]

\* The books reset can be given, per side: OrderBook<QUOTE,
\* BEST_ORDER_BOOK_SIZE> is a properly sorted vector of at most that many
\* unique non empty orders; their prices go up to MaxSummaryPrice.
SummaryBooksOf(q) ==
  {v \in Vectors :
     /\ Len(v) <= BEST_ORDER_BOOK_SIZE
     /\ \A i \in 1..Len(v) : ~Order_is_empty(v[i]) /\ v[i].price <= MaxSummaryPrice
     /\ \A i \in 1..(Len(v) - 1) : order_comparator(q, v[i], v[i + 1]) = "Less"}

SummaryBooksAsk == SummaryBooksOf(ASK)

SummaryBooksBid == SummaryBooksOf(BID)

\* ------------------------------------------------------- the Binance feed
\* events::Order carries the two floats of the wire: a price that is 0.0 or
\* one of 1.0 .. MaxWirePrice, a quantity that is -1.0, 0.0 or 1.0.
WirePrices ==
  {[class |-> "Zero", negative |-> FALSE, mag |-> 1]}
    \cup {[class |-> "Normal", negative |-> FALSE, mag |-> p] : p \in 1..MaxWirePrice}

WireQuantities ==
  {[class |-> "Zero", negative |-> FALSE, mag |-> 1]}
    \cup {[class |-> "Normal", negative |-> s, mag |-> 1] : s \in BOOLEAN}

events_Order == [price : WirePrices, quantity : WireQuantities]

\* The bids or the asks of an event.
WireSides == UNION {[1..len -> events_Order] : len \in 0..MaxWireLen}

\* No message is waiting.
NoMessage == [kind |-> "none", bids |-> <<>>, asks |-> <<>>]

\* What the stream yields: a text message that parses into
\* TypedEvent::DepthUpdate or into Event::OrderBook, a text message that
\* parses into neither, or a message that is no text.  Every event is for
\* the subscribed symbol.
Messages ==
  [kind : {"depthUpdate", "orderBook"}, bids : WireSides, asks : WireSides]
    \cup [kind : {"unknown", "ping"}, bids : {<<>>}, asks : {<<>>}]

\* The float a Price holds, as a price of the engine.
PriceValue(x) == x.mag

\* The float an Amount holds, as an amount of the engine.
AmountValue(x) == IF classify(x) = "Zero" THEN 0 ELSE x.mag

\* feeds::Error::Binance(e.to_string())
Binance == Err("Binance")

\* The orders of one side of an event, collected into Result<Vec<_>, f64>
\* and mapped into the feed's error.
collect_orders(v) ==
  IF \E i \in 1..Len(v) : ~Price_new(v[i].price).ok \/ ~Amount_new(v[i].quantity).ok
    THEN Binance
  ELSE Ok([i \in 1..Len(v) |->
             Order_new(PriceValue(Price_new(v[i].price).val),
                       AmountValue(Amount_new(v[i].quantity).val))])

\* OrderBookSubscriptionState::new: default books.
OrderBookSubscriptionState_new == [bids |-> <<>>, asks |-> <<>>]

\* tx.unbounded_send(msg), the receiver being alive.
unbounded_send(ch, msg) == Append(ch, msg)

\* What a handler leaves: the state of the subscription, the channel and
\* the handler's result.
Outcome(st, ch, r) == [state |-> st, tx |-> ch, result |-> r]

\* Feed::depth_update from the asks on; st holds the new bids already.
depth_update_asks(st, ch, ev) ==
  LET as == collect_orders(ev.asks)
  IN  IF ~as.ok THEN {Outcome(st, ch, Binance)}
      ELSE {IF ~d.ok THEN Outcome(st, ch, Binance)
            ELSE LET new == OrderBook_update(ASK, st.asks, d.val)
                 IN  Outcome([st EXCEPT !.asks = new],
                             unbounded_send(ch, [bids |-> st.bids, asks |-> new]),
                             Ok(<<>>)) :
              d \in OrderBookDiff_new(ASK, as.val)}

\* Feed::depth_update: the set of outcomes the unstable sorts allow.
Feed_depth_update(st, ch, ev) ==
  LET bs == collect_orders(ev.bids)
  IN  IF ~bs.ok THEN {Outcome(st, ch, Binance)}
      ELSE UNION {IF ~d.ok THEN {Outcome(st, ch, Binance)}
                  ELSE depth_update_asks(
                         [st EXCEPT !.bids = OrderBook_update(BID, st.bids, d.val)],
                         ch, ev) :
                    d \in OrderBookDiff_new(BID, bs.val)}

\* Feed::order_book: the set of outcomes the unstable selections allow.
Feed_order_book(st, ch, ev) ==
  LET bs == collect_orders(ev.bids)
      as == collect_orders(ev.asks)
  IN  IF ~bs.ok THEN {Outcome(st, ch, Binance)}
      ELSE UNION {IF ~b.ok \/ ~as.ok THEN {Outcome(st, ch, Binance)}
                  ELSE {IF ~a.ok THEN Outcome(st, ch, Binance)
                        ELSE Outcome(st,
                                     unbounded_send(ch, [bids |-> b.val, asks |-> a.val]),
                                     Ok(<<>>)) :
                          a \in OrderBook_new(ASK, as.val)} :
                    b \in OrderBook_new(BID, bs.val)}

\* ------------------------------------------------------------ the Config
\* The urls a Config is built for.
DefaultUrl == "wss://stream.binance.com:443"

Urls == {"ws://127.0.0.1", "ws://127.0.0.1:9001", DefaultUrl}

\* A call in progress: the function, its url argument and what its callee
\* returned to it, if it has.
Frame(f, u) == [fn |-> f, url |-> u, callee |-> [known |-> FALSE, val |-> <<>>]]

\* The callee on top of the stack returns v to its caller.
Return(stk, v) ==
  LET rest == SubSeq(stk, 1, Len(stk) - 1)
  IN  IF rest = <<>> THEN rest
      ELSE [rest EXCEPT ![Len(rest)].callee = [known |-> TRUE, val |-> v]]

\* Config::new(url): Self { url, ..Default::default() }.  The base of the
\* struct update is evaluated by a call of Default::default(); the value is
\* built when that call has returned.
Config_new(stk) ==
  LET top == stk[Len(stk)]
  IN  IF top.callee.known
        THEN [stack |-> Return(stk, [top.callee.val EXCEPT !.url = top.url]),
              value |-> Ok([top.callee.val EXCEPT !.url = top.url])]
      ELSE [stack |-> Append(stk, Frame("Default::default", DefaultUrl)),
            value |-> Err("pending")]

\* Default::default(): Self::new(Url::parse(DefaultUrl).unwrap()).
Config_default(stk) ==
  LET top == stk[Len(stk)]
  IN  IF top.callee.known
        THEN [stack |-> Return(stk, top.callee.val), value |-> Ok(top.callee.val)]
      ELSE [stack |-> Append(stk, Frame("Config::new", DefaultUrl)),
            value |-> Err("pending")]

\* ------------------------------------------------------ the subscriptions
\* The symbols subscriptions are made for.
Symbols == {"bnbbtc", "btcusdt"}

\* enum BookPeriod and its discriminants.
BookPeriod == {"Normal", "Fast"}

BookPeriodValue(per) == IF per = "Normal" THEN 1000 ELSE 100

\* Option<BookDepth>, and the discriminants of enum BookDepth.
OptionBookDepth == {"None", "Small", "Medium", "Large"}

BookDepthValue(dep) ==
  IF dep = "Small" THEN 5 ELSE IF dep = "Medium" THEN 10 ELSE 20

\* `as u8` of an enum: the discriminant truncated to eight bits.
as_u8(v) == v % 256

\* Subscriptions { order_book: None }
NoStream == [some |-> FALSE, period |-> "Normal", depth |-> "None"]

\* Subscriptions { order_book: Some(OrderBookSubscriptionState::new(tx, per, dep)) }
SomeStream(per, dep) == [some |-> TRUE, period |-> per, depth |-> dep]

\* OrderBookSubscriptionState::to_subscription_string: "depth{}@{}ms", as
\* the depth digits (none for no depth) and the period it prints.
to_subscription_string(st) ==
  [depth |-> IF st.depth = "None" THEN <<>> ELSE <<as_u8(BookDepthValue(st.depth))>>,
   period |-> as_u8(BookPeriodValue(st.period))]

\* Config::subscribe_order_book; Err carries the message of a panic.
\* self.subscriptions[&symbol] is HashMap's Index, which panics when the
\* map has no entry for the key.
Config_subscribe_order_book(cfg, sym, per, dep) ==
  IF sym \notin DOMAIN cfg.subscriptions
    THEN Err("no entry found for key")
  ELSE IF cfg.subscriptions[sym].some
    THEN Err("order book stream has already subscribed")
  ELSE IF ~(dep = "None" \/ cfg.depth_order_book = "")
    THEN Err("Partial Book Depth Streams don't contain symbol to distinguish them")
  ELSE Ok([url |-> cfg.url,
           subscriptions |->
             [s \in DOMAIN cfg.subscriptions \cup {sym} |->
                IF s = sym THEN SomeStream(per, dep) ELSE cfg.subscriptions[s]],
           depth_order_book |-> IF dep # "None" THEN sym ELSE cfg.depth_order_book])

\* Every arrangement of the elements of a set: the orders in which a
\* HashMap can be iterated.
SeqsOfSet(S) ==
  {f \in [1..Cardinality(S) -> S] : \A i, j \in 1..Cardinality(S) : i # j => f[i] # f[j]}

\* Config::connect: the streams of the query, symbol@name for every
\* subscribed symbol in the order the map is iterated in.
Config_connect_streams(cfg) ==
  {[i \in 1..Len(f) |->
      [symbol |-> f[i], name |-> to_subscription_string(cfg.subscriptions[f[i]])]] :
     f \in SeqsOfSet({s \in DOMAIN cfg.subscriptions : cfg.subscriptions[s].some})}

\* The arguments of a call on a Config.
ConfigCall(cfg, sym, per, dep) ==
  [self |-> cfg, symbol |-> sym, period |-> per, depth |-> dep]

\* A Config written as a struct literal: entries with no stream yet for
\* some of the symbols, and no partial-depth symbol.
ConfigLiterals ==
  {[url |-> DefaultUrl,
    subscriptions |-> [s \in D |-> NoStream],
    depth_order_book |-> ""] : D \in SUBSET Symbols}

\* ------------------------------------------------------------------ state
VARIABLES
  quote,    \* the Side of the book: ASK or BID
  book,     \* the OrderBook a client of the engine holds
  ref,      \* the same snapshot and diffs applied with no depth cap
  before,   \* the book the last update was called on
  diff,     \* the diff of the last update
  op,       \* the last operation
  before0,  \* the book the update before the last was called on
  diff0,    \* the diff of the update before the last
  n,        \* successive updates in scope (two-step history only)
  input,    \* the argument handed to a constructor
  result,   \* what the constructor returned
  summary,  \* SummaryOrderBook.books
  exchange, \* the exchange of the last reset
  latest,   \* per exchange: was it reset, and the books of its last reset
  bids,     \* what the last bids() emitted
  asks,     \* what the last asks() emitted
  spread,   \* what spread returned for them
  state,    \* OrderBookSubscriptionState: the stored bids and asks
  tx,       \* the messages sent on the subscription's channel
  stack     \* the calls in progress while a Config is built

engineVars == <<quote, book, ref, before, diff, before0, diff0, n, input, result>>

summaryVars == <<summary, exchange, latest, bids, asks, spread>>

feedVars == <<state, tx, stack>>

vars == <<quote, book, ref, before, diff, op, before0, diff0, n, input, result,
          summary, exchange, latest, bids, asks, spread, state, tx, stack>>

\* The summary as SummaryOrderBook::default() leaves it, not yet queried.
InitSummary ==
  /\ summary = SummaryOrderBook_default
  /\ exchange = Exchanges[1]
  /\ latest = [e \in Exchange |-> [reset |-> FALSE, bids |-> <<>>, asks |-> <<>>]]
  /\ bids = <<>>
  /\ asks = <<>>
  /\ spread = NAN

\* A subscription as OrderBookSubscriptionState::new leaves it, nothing
\* sent yet, and no Config under construction.
InitFeed ==
  /\ state = OrderBookSubscriptionState_new
  /\ tx = <<>>
  /\ stack = <<>>

Init ==
  /\ quote \in {ASK, BID}
  /\ book = <<>>
  /\ ref = [known |-> TRUE, levels |-> <<>>]
  /\ before = <<>>
  /\ diff = <<>>
  /\ op = "default"
  /\ before0 = <<>>
  /\ diff0 = <<>>
  /\ n = 0
  /\ input = <<>>
  /\ result = Ok(<<>>)
  /\ InitSummary
  /\ InitFeed

\* ------------------------------------------------- the book and its diffs
\* op is the client's position: "update" while the book an update was called
\* on and its diff are still in scope next to the result, anything else when
\* only the book is held.

\* book = OrderBook::new(v)?
Snapshot ==
  /\ op # "update"
  /\ \E s \in SnapshotsNew(quote) :
       /\ book' = s.book
       /\ ref' = s.ref
       /\ op' = "new"
       /\ UNCHANGED <<quote, before, diff, before0, diff0, n, input, result, summaryVars, feedVars>>

\* book = OrderBook::new_sorted(v)?
SnapshotSorted ==
  /\ op # "update"
  /\ \E s \in SnapshotsSorted(quote) :
       /\ book' = s.book
       /\ ref' = s.ref
       /\ op' = "new_sorted"
       /\ UNCHANGED <<quote, before, diff, before0, diff0, n, input, result, summaryVars, feedVars>>

\* let book = book.update(&d), d a diff from Diff::new or Diff::new_sorted
ApplyDiff ==
  /\ op # "update"
  /\ \E d \in Diffs(quote) :
       /\ book' = OrderBook_update(quote, book, d)
       /\ ref' = [ref EXCEPT !.levels = UpdateUncapped(quote, ref.levels, d)]
       /\ before' = book
       /\ diff' = d
       /\ op' = "update"
       /\ UNCHANGED <<quote, before0, diff0, n, input, result, summaryVars, feedVars>>

\* The old book and the diff go out of scope; the new book stays.
Release ==
  /\ op = "update"
  /\ before' = <<>>
  /\ diff' = <<>>
  /\ op' = "held"
  /\ UNCHANGED <<quote, book, ref, before0, diff0, n, input, result, summaryVars, feedVars>>

Next == Snapshot \/ SnapshotSorted \/ ApplyDiff \/ Release

Spec == Init /\ [][Next]_vars

\* ------------------------------------- updates of the empty book only
\* let book = OrderBook::default(); then book = book.update(&d) again and
\* again.
NextFromEmpty == ApplyDiff \/ Release

SpecFromEmpty == Init /\ [][NextFromEmpty]_vars

\* ------------------------------------------- two updates in a row
\* let book = book.update(&d), with up to two successive updates in scope:
\* n counts them, before0 and diff0 belong to the earlier one.
UpdateWith(d) ==
  /\ book' = OrderBook_update(quote, book, d)
  /\ before' = book
  /\ diff' = d
  /\ before0' = before
  /\ diff0' = diff
  /\ n' = n + 1
  /\ op' = "update"
  /\ UNCHANGED <<quote, ref, input, result, summaryVars, feedVars>>

ApplyDiffAgain ==
  /\ n < 2
  /\ \E d \in Diffs(quote) : UpdateWith(d)

\* The earlier books and the diffs go out of scope; the new book stays.
ReleaseBoth ==
  /\ n > 0
  /\ before' = <<>>
  /\ diff' = <<>>
  /\ before0' = <<>>
  /\ diff0' = <<>>
  /\ n' = 0
  /\ op' = "held"
  /\ UNCHANGED <<quote, book, ref, input, result, summaryVars, feedVars>>

NextTwo == ApplyDiffAgain \/ ReleaseBoth

SpecTwo == Init /\ [][NextTwo]_vars

\* ------------------------------- an update followed by its own diff
\* The second update is given the first one's diff once more, as it is or
\* with every amount set to zero.
ApplyFirst ==
  /\ n = 0
  /\ \E d \in Diffs(quote) : UpdateWith(d)

\* book.update(&d).update(&d)
ApplySame ==
  /\ n = 1
  /\ UpdateWith(diff)

\* book.update(&d).update(&default_amount(d))
ApplyEmptied ==
  /\ n = 1
  /\ UpdateWith(EmptyAmount(diff))

NextRepeat == ApplyFirst \/ ApplySame \/ ApplyEmptied \/ ReleaseBoth

SpecRepeat == Init /\ [][NextRepeat]_vars

\* ------------------------------------------------------ the constructors
\* A vector of orders is about to be handed to a constructor.
InitCtor ==
  /\ quote \in {ASK, BID}
  /\ input \in Vectors
  /\ op = "input"
  /\ result = Ok(<<>>)
  /\ book = <<>>
  /\ ref = [known |-> TRUE, levels |-> <<>>]
  /\ before = <<>>
  /\ diff = <<>>
  /\ before0 = <<>>
  /\ diff0 = <<>>
  /\ n = 0
  /\ InitSummary
  /\ InitFeed

\* OrderBookDiff::<QUOTE>::new(input)
CallDiffNew ==
  /\ op = "input"
  /\ result' \in OrderBookDiff_new(quote, input)
  /\ op' = "Diff::new"
  /\ UNCHANGED <<quote, input, book, ref, before, diff, before0, diff0, n, summaryVars, feedVars>>

\* OrderBookDiff::<QUOTE>::new_sorted(input)
CallDiffNewSorted ==
  /\ op = "input"
  /\ result' = OrderBookDiff_new_sorted(quote, input)
  /\ op' = "Diff::new_sorted"
  /\ UNCHANGED <<quote, input, book, ref, before, diff, before0, diff0, n, summaryVars, feedVars>>

\* OrderBook::<QUOTE, COUNT>::new(input)
CallBookNew ==
  /\ op = "input"
  /\ result' \in OrderBook_new(quote, input)
  /\ op' = "Book::new"
  /\ UNCHANGED <<quote, input, book, ref, before, diff, before0, diff0, n, summaryVars, feedVars>>

\* OrderBook::<QUOTE, COUNT>::new_sorted(input)
CallBookNewSorted ==
  /\ op = "input"
  /\ result' = OrderBook_new_sorted(quote, input)
  /\ op' = "Book::new_sorted"
  /\ UNCHANGED <<quote, input, book, ref, before, diff, before0, diff0, n, summaryVars, feedVars>>

NextCtor == CallDiffNew \/ CallDiffNewSorted \/ CallBookNew \/ CallBookNewSorted

SpecCtor == InitCtor /\ [][NextCtor]_vars

\* ------------------------------------------- Book::new on long vectors
\* A vector of up to MaxNewLen orders is about to be handed to Book::new.
InitArrange ==
  /\ quote \in {ASK, BID}
  /\ input \in LongVectors
  /\ op = "input"
  /\ result = Ok(<<>>)
  /\ book = <<>>
  /\ ref = [known |-> TRUE, levels |-> <<>>]
  /\ before = <<>>
  /\ diff = <<>>
  /\ before0 = <<>>
  /\ diff0 = <<>>
  /\ n = 0
  /\ InitSummary
  /\ InitFeed

NextArrange == CallBookNew

SpecArrange == InitArrange /\ [][NextArrange]_vars

\* ------------------------------------------------------------ the summary
\* summary.reset(e, bs, as).  The streams of an earlier query borrow the
\* summary, so none is alive when reset runs.
Reset ==
  \E e \in Exchange, bs \in SummaryBooksBid, as \in SummaryBooksAsk :
    /\ summary' = SummaryOrderBook_reset(summary, e, bs, as)
    /\ exchange' = e
    /\ latest' = [latest EXCEPT ![e] = [reset |-> TRUE, bids |-> bs, asks |-> as]]
    /\ bids' = <<>>
    /\ asks' = <<>>
    /\ spread' = NAN
    /\ op' = "reset"
    /\ UNCHANGED <<engineVars, feedVars>>

\* The publisher: SummaryOrderBook::spread(summary.bids(), summary.asks())
\* next to the streams themselves.
Publish ==
  /\ bids' \in SummaryOrderBook_quotes(BID, summary)
  /\ asks' \in SummaryOrderBook_quotes(ASK, summary)
  /\ spread' = SummaryOrderBook_spread(bids', asks')
  /\ op' = "publish"
  /\ UNCHANGED <<summary, exchange, latest, engineVars, feedVars>>

NextSummary == Reset \/ Publish

\* The summary after SummaryOrderBook::default(); no book is under update.
InitPublisher == Init /\ quote = BID

SpecSummary == InitPublisher /\ [][NextSummary]_vars

\* ------------------------------------------------------ the primitives
\* A float is about to be handed to a validating constructor.
InitPrimitive ==
  /\ quote = BID
  /\ input \in F64
  /\ op = "input"
  /\ result = Ok(<<>>)
  /\ book = <<>>
  /\ ref = [known |-> TRUE, levels |-> <<>>]
  /\ before = <<>>
  /\ diff = <<>>
  /\ before0 = <<>>
  /\ diff0 = <<>>
  /\ n = 0
  /\ InitSummary
  /\ InitFeed

\* Price::new(input)
CallPriceNew ==
  /\ op = "input"
  /\ result' = Price_new(input)
  /\ op' = "Price::new"
  /\ UNCHANGED <<quote, input, book, ref, before, diff, before0, diff0, n, summaryVars, feedVars>>

\* Amount::new(input)
CallAmountNew ==
  /\ op = "input"
  /\ result' = Amount_new(input)
  /\ op' = "Amount::new"
  /\ UNCHANGED <<quote, input, book, ref, before, diff, before0, diff0, n, summaryVars, feedVars>>

NextPrimitive == CallPriceNew \/ CallAmountNew

SpecPrimitive == InitPrimitive /\ [][NextPrimitive]_vars

\* --------------------------------------------------------------- the feed
\* A connected feed with one order-book subscription; the stream has
\* yielded nothing yet.
InitStream ==
  /\ quote = BID
  /\ input = NoMessage
  /\ op = "connected"
  /\ result = Ok(<<>>)
  /\ book = <<>>
  /\ ref = [known |-> TRUE, levels |-> <<>>]
  /\ before = <<>>
  /\ diff = <<>>
  /\ before0 = <<>>
  /\ diff0 = <<>>
  /\ n = 0
  /\ InitSummary
  /\ InitFeed

\* The stream yields its next message.  try_for_each stops at the first
\* error, so it yields nothing more once a handler has failed.
Receive ==
  /\ input = NoMessage
  /\ result.ok
  /\ Len(tx) < MaxSent
  /\ input' \in Messages
  /\ UNCHANGED <<quote, book, ref, before, diff, op, before0, diff0, n, result,
                 summaryVars, feedVars>>

\* Event::Typed(TypedEvent::DepthUpdate(diff)) => Self::depth_update
HandleDepthUpdate ==
  /\ input.kind = "depthUpdate"
  /\ \E o \in Feed_depth_update(state, tx, input) :
       /\ state' = o.state
       /\ tx' = o.tx
       /\ result' = o.result
  /\ op' = "depth_update"
  /\ input' = NoMessage
  /\ UNCHANGED <<quote, book, ref, before, diff, before0, diff0, n, summaryVars, stack>>

\* Event::OrderBook(book) => Self::order_book
HandleOrderBook ==
  /\ input.kind = "orderBook"
  /\ \E o \in Feed_order_book(state, tx, input) :
       /\ state' = o.state
       /\ tx' = o.tx
       /\ result' = o.result
  /\ op' = "order_book"
  /\ input' = NoMessage
  /\ UNCHANGED <<quote, book, ref, before, diff, before0, diff0, n, summaryVars, stack>>

\* A text that is no event is an error of serde_json; a message that is no
\* text is passed over.
HandleOther ==
  /\ input.kind \in {"unknown", "ping"}
  /\ result' = IF input.kind = "unknown" THEN Binance ELSE Ok(<<>>)
  /\ op' = "passed"
  /\ input' = NoMessage
  /\ UNCHANGED <<quote, book, ref, before, diff, before0, diff0, n, summaryVars, feedVars>>

NextFeed == Receive \/ HandleDepthUpdate \/ HandleOrderBook \/ HandleOther

SpecFeed == InitStream /\ [][NextFeed]_vars

\* ------------------------------------------------------------- the Config
\* A url is about to be handed to Config::new.
InitConfig ==
  /\ quote = BID
  /\ input \in Urls
  /\ op = "input"
  /\ result = Ok(<<>>)
  /\ book = <<>>
  /\ ref = [known |-> TRUE, levels |-> <<>>]
  /\ before = <<>>
  /\ diff = <<>>
  /\ before0 = <<>>
  /\ diff0 = <<>>
  /\ n = 0
  /\ InitSummary
  /\ InitFeed

\* The caller's position after a step with outcome r: back in the caller
\* with the value once the outermost call has returned.
AfterStep(r) ==
  IF r.stack = <<>>
    THEN op' = "returned" /\ result' = r.value
  ELSE UNCHANGED <<op, result>>

\* Config::new(input)
CallConfigNew ==
  /\ op = "input"
  /\ stack' = <<Frame("Config::new", input)>>
  /\ op' = "Config::new"
  /\ UNCHANGED <<quote, book, ref, before, diff, before0, diff0, n, input, result,
                 summaryVars, state, tx>>

\* The call of Config::new on top of the stack goes on.
StepConfigNew ==
  /\ op = "Config::new"
  /\ stack[Len(stack)].fn = "Config::new"
  /\ stack[Len(stack)].callee.known \/ Len(stack) < MaxStack
  /\ stack' = Config_new(stack).stack
  /\ AfterStep(Config_new(stack))
  /\ UNCHANGED <<quote, book, ref, before, diff, before0, diff0, n, input,
                 summaryVars, state, tx>>

\* The call of Default::default on top of the stack goes on.
StepDefault ==
  /\ op = "Config::new"
  /\ stack[Len(stack)].fn = "Default::default"
  /\ stack[Len(stack)].callee.known \/ Len(stack) < MaxStack
  /\ stack' = Config_default(stack).stack
  /\ AfterStep(Config_default(stack))
  /\ UNCHANGED <<quote, book, ref, before, diff, before0, diff0, n, input,
                 summaryVars, state, tx>>

\* The next call finds no room on the stack: the process is aborted.
StackOverflow ==
  /\ op = "Config::new"
  /\ Len(stack) = MaxStack
  /\ ~stack[Len(stack)].callee.known
  /\ op' = "stack overflow"
  /\ UNCHANGED <<quote, book, ref, before, diff, before0, diff0, n, input, result,
                 summaryVars, feedVars>>

NextConfig == CallConfigNew \/ StepConfigNew \/ StepDefault \/ StackOverflow

\* A call in progress takes its next step.
SpecConfig == InitConfig /\ [][NextConfig]_vars /\ WF_vars(NextConfig)

\* ------------------------------------------------------ the subscriptions
\* A Config is held; nothing has been called on it.
InitSubscribe ==
  /\ quote = BID
  /\ result \in {Ok(c) : c \in ConfigLiterals}
  /\ input = ConfigCall(result.val, "", "Normal", "None")
  /\ op = "literal"
  /\ book = <<>>
  /\ ref = [known |-> TRUE, levels |-> <<>>]
  /\ before = <<>>
  /\ diff = <<>>
  /\ before0 = <<>>
  /\ diff0 = <<>>
  /\ n = 0
  /\ InitSummary
  /\ InitFeed

\* config.subscribe_order_book(tx, symbol, period, depth): the builder takes
\* the Config by value and hands it back, unless it panics.
CallSubscribeOrderBook ==
  /\ op \in {"literal", "subscribe_order_book"}
  /\ result.ok
  /\ \E sym \in Symbols, per \in BookPeriod, dep \in OptionBookDepth :
       /\ input' = ConfigCall(result.val, sym, per, dep)
       /\ result' = Config_subscribe_order_book(result.val, sym, per, dep)
  /\ op' = "subscribe_order_book"
  /\ UNCHANGED <<quote, book, ref, before, diff, before0, diff0, n, summaryVars, feedVars>>

\* config.connect(): the streams asked for, or the error of the websocket.
CallConnect ==
  /\ op \in {"literal", "subscribe_order_book"}
  /\ result.ok
  /\ input' = ConfigCall(result.val, "", "Normal", "None")
  /\ result' \in {Ok(s) : s \in Config_connect_streams(result.val)} \cup {Err("WS")}
  /\ op' = "connect"
  /\ UNCHANGED <<quote, book, ref, before, diff, before0, diff0, n, summaryVars, feedVars>>

NextSubscribe == CallSubscribeOrderBook \/ CallConnect

SpecSubscribe == InitSubscribe /\ [][NextSubscribe]_vars

\* ============================================================ properties
PricesOf(s) == {s[i].price : i \in 1..Len(s)}

Range(s) == {s[i] : i \in 1..Len(s)}

\* p1 ranks strictly before p2 on side q: lower for asks, higher for bids.
Better(q, p1, p2) == IF q = ASK THEN p1 < p2 ELSE p1 > p2

\* Strictly in Side order, hence with pairwise distinct prices.
SideSorted(q, s) ==
  \A i, j \in 1..Len(s) : i < j => Better(q, s[i].price, s[j].price)

\* In Side order, repeated prices allowed.
InSideOrder(q, s) ==
  \A i, j \in 1..Len(s) : i < j => ~Better(q, s[j].price, s[i].price)

DistinctPrices(s) ==
  \A i, j \in 1..Len(s) : i # j => s[i].price # s[j].price

\* The levels of a set of orders with distinct prices, in Side order.
RECURSIVE SeqOfLevels(_, _)
SeqOfLevels(q, S) ==
  IF S = {} THEN <<>>
  ELSE LET best == CHOOSE o \in S : \A x \in S \ {o} : Better(q, o.price, x.price)
       IN  <<best>> \o SeqOfLevels(q, S \ {best})

AmountAt(s, p) == (CHOOSE o \in Range(s) : o.price = p).amount

\* How often order o occurs in s.
Occurrences(s, o) == Cardinality({i \in 1..Len(s) : s[i] = o})

IsPermutation(s, t) ==
  /\ Len(s) = Len(t)
  /\ \A o \in Range(s) \cup Range(t) : Occurrences(s, o) = Occurrences(t, o)


\* The levels of b whose price the diff d does not name.
Untouched(b, d) == {o \in Range(b) : o.price \notin PricesOf(d)}

\* The orders of d that carry an amount.
Carried(d) == {o \in Range(d) : ~Order_is_empty(o)}

\* ---- C1
\* C1: every book reachable through default, Book::new, Book::new_sorted and
\* update with valid diffs has pairwise distinct prices, is sorted by Side,
\* holds no order with zero amount and has at most COUNT levels.
C1_BookInvariants ==
  /\ DistinctPrices(book)
  /\ SideSorted(quote, book)
  /\ \A i \in 1..Len(book) : ~Order_is_empty(book[i])
  /\ Len(book) <= COUNT

\* An update of a full book whose merge runs past the cap and whose diff both
\* deletes and inserts.
C1_Witness ==
  /\ op = "update"
  /\ Len(before) = COUNT
  /\ Len(book) = COUNT
  /\ Len(Merger(quote, before, diff)) > COUNT
  /\ \E i \in 1..Len(diff) : Order_is_empty(diff[i])
  /\ \E i \in 1..Len(diff) : ~Order_is_empty(diff[i]) /\ diff[i].price \notin PricesOf(before)

\* ---- C2
\* C2: book.update(diff) is the first COUNT orders, in Side order, of the
\* levels of the book whose price is not in the diff together with the
\* diff's orders of non-zero amount (delete, replace, insert, survive).
C2_UpdateIsMergeOfLevels ==
  op = "update" =>
    book = Take(SeqOfLevels(quote, Untouched(before, diff) \cup Carried(diff)), COUNT)

\* One update that deletes a level, replaces another and inserts a third.
C2_Witness ==
  /\ op = "update"
  /\ \E o \in Range(diff) :
       Order_is_empty(o) /\ o.price \in PricesOf(before) /\ o.price \notin PricesOf(book)
  /\ \E o \in Range(diff) :
       /\ ~Order_is_empty(o)
       /\ o.price \in PricesOf(before)
       /\ AmountAt(before, o.price) # o.amount
       /\ o \in Range(book)
  /\ \E o \in Range(diff) :
       ~Order_is_empty(o) /\ o.price \notin PricesOf(before) /\ o \in Range(book)

\* A level the diff does not name survives an update that also inserts.
C2_WitnessSurvives ==
  /\ op = "update"
  /\ \E o \in Range(before) : o.price \notin PricesOf(diff) /\ o \in Range(book)
  /\ \E o \in Range(diff) : o.price \notin PricesOf(before) /\ o \in Range(book)

\* ---- C3
\* C3: after a snapshot and any sequence of updates, the book equals the first
\* COUNT levels of the book obtained from the same snapshot and diffs with no
\* depth cap.
C3_BookIsTopOfUncapped ==
  ref.known => book = Take(ref.levels, COUNT)

\* ---- C5
\* C5: updating with the empty diff returns a book equal to the original.
C5_Identity ==
  (op = "update" /\ diff = <<>>) => book = before

\* The empty diff applied to a full book.
C5_Witness ==
  op = "update" /\ diff = <<>> /\ Len(before) = COUNT /\ book = before

C6_IdempotentOnInsertions ==
  (/\ n = 2
   /\ diff = diff0
   /\ PricesOf(diff0) \cap PricesOf(before0) = {}
   /\ Carried(diff0) = Range(diff0)) => book = before

\* The same inserting diff applied twice to a non-empty book, the merge
\* running past the cap.
C6_Witness ==
  /\ n = 2
  /\ diff = diff0
  /\ diff # <<>>
  /\ before0 # <<>>
  /\ PricesOf(diff0) \cap PricesOf(before0) = {}
  /\ Carried(diff0) = Range(diff0)
  /\ Len(Merger(quote, before0, diff0)) > COUNT
  /\ book = before

\* ---- C7
\* The surviving levels that rank strictly before price p after the diff d is
\* applied to the book b.
AheadOf(q, b, d, p) ==
  {o \in Untouched(b, d) \cup Carried(d) : Better(q, o.price, p)}

\* C7: the latest diff wins.  At a price named by two successive diffs the
\* book after the second update carries the second diff's amount: the level
\* is absent when that amount is zero, present when it is non-zero and fewer
\* than COUNT surviving levels rank before it, and never carries another
\* amount.
C7_LatestWins ==
  n = 2 =>
    \A p \in PricesOf(diff0) \cap PricesOf(diff) :
      /\ AmountAt(diff, p) = 0 => p \notin PricesOf(book)
      /\ p \in PricesOf(book) => AmountAt(book, p) = AmountAt(diff, p)
      /\ (AmountAt(diff, p) # 0 /\ Cardinality(AheadOf(quote, before, diff, p)) < COUNT)
           => p \in PricesOf(book)

\* Two diffs name one price with different amounts, the level is in the
\* result, and applying the diffs in the other order gives another book.
C7_Witness ==
  /\ n = 2
  /\ \E p \in PricesOf(diff0) \cap PricesOf(diff) :
       /\ AmountAt(diff0, p) # AmountAt(diff, p)
       /\ p \in PricesOf(book)
       /\ AmountAt(book, p) = AmountAt(diff, p)
  /\ book # OrderBook_update(quote, OrderBook_update(quote, before0, diff), diff0)

\* ---- C8
\* C8: Diff::new(V) succeeds iff the prices of V are pairwise distinct; on
\* success the result is a permutation of V sorted by Side, zero-amount
\* orders kept; on failure the error is HasOrderWithNotUniquePrice.
C8_DiffNew ==
  op = "Diff::new" =>
    /\ result.ok <=> DistinctPrices(input)
    /\ result.ok => IsPermutation(result.val, input) /\ SideSorted(quote, result.val)
    /\ ~result.ok => result.err = "HasOrderWithNotUniquePrice"

\* Diff::new accepts a full-length vector that is out of order and holds
\* a zero-amount order.
C8_Witness ==
  /\ op = "Diff::new"
  /\ result.ok
  /\ Len(input) = MaxLen
  /\ ~InSideOrder(quote, input)
  /\ \E i \in 1..Len(input) : Order_is_empty(input[i])
  /\ result.val # input

\* Diff::new rejects a vector whose repeated price is not at its first order.
C8_WitnessRejected ==
  /\ op = "Diff::new"
  /\ ~result.ok
  /\ \E i, j \in 2..Len(input) : i # j /\ input[i].price = input[j].price

\* ---- C9
\* C9: Diff::new_sorted(V) succeeds iff V is in Side order with pairwise
\* distinct prices, and then stores V unchanged; a V out of Side order is
\* rejected with OrdersNotSortedAccordingToQuoteType, a V in Side order that
\* repeats a price with HasOrderWithNotUniquePrice.
C9_DiffNewSorted ==
  op = "Diff::new_sorted" =>
    /\ result.ok <=> SideSorted(quote, input)
    /\ result.ok => result.val = input
    /\ ~InSideOrder(quote, input) => result = Err("OrdersNotSortedAccordingToQuoteType")
    /\ (InSideOrder(quote, input) /\ ~DistinctPrices(input))
         => result = Err("HasOrderWithNotUniquePrice")

\* Diff::new_sorted rejects a vector in Side order that repeats a price.
C9_Witness ==
  /\ op = "Diff::new_sorted"
  /\ Len(input) = MaxLen
  /\ InSideOrder(quote, input)
  /\ ~DistinctPrices(input)
  /\ result = Err("HasOrderWithNotUniquePrice")

\* ---- C10
\* The arrangements of v in Side order.
SideArrangements(q, v) == {p \in Arrangements(v) : InSideOrder(q, p)}

\* C10: for every V whose COUNT best orders by Side have distinct prices and
\* non-zero amounts, Book::new(V) succeeds and returns exactly those orders
\* in Side order, whatever ranks beyond the cap.  (The COUNT best orders are
\* those every Side-ordered arrangement of V starts with.)
C10_BookNewKeepsBest ==
  op = "Book::new" =>
    \A s \in SideArrangements(quote, input) :
      LET best == Take(s, COUNT)
      IN  (/\ \A t \in SideArrangements(quote, input) : Take(t, COUNT) = best
           /\ DistinctPrices(best)
           /\ Carried(best) = Range(best)) => result = Ok(best)

\* ---- C11
\* The arrangements Book::new may hand to the validation: the outcomes of the
\* partial selection and of the sort of the part before the cap.
Rankings(q, v) ==
  IF v = <<>> THEN {<<>>}
  ELSE select_nth_then_sort_left(q, v, Min(Len(v), COUNT) - 1)

\* One of the first COUNT orders of s has a zero amount.
EmptyWithinCap(s) == \E i \in 1..Min(Len(s), COUNT) : Order_is_empty(s[i])

\* C11: Book::new(V) returns HasOrderWithEmptyAmount whenever one of the
\* first COUNT orders of the ranked V has a zero amount, and so does
\* Book::new_sorted(V) for a V whose first COUNT orders are in Side order;
\* a repeated price among those orders does not change the error.
C11_EmptyAmountFirst ==
  /\ op = "Book::new" =>
       \A s \in Rankings(quote, input) :
         (EmptyWithinCap(s) /\ result = OrderBook_new_sorted_unchecked(s))
           => result = Err("HasOrderWithEmptyAmount")
  /\ (/\ op = "Book::new_sorted"
      /\ InSideOrder(quote, Take(input, COUNT))
      /\ EmptyWithinCap(input)) => result = Err("HasOrderWithEmptyAmount")

\* Book::new met an empty order and a repeated price within the cap.
C11_Witness ==
  /\ op = "Book::new"
  /\ \E i, j \in 1..Min(Len(input), COUNT) :
       i # j /\ input[i].price = input[j].price /\ Order_is_empty(input[i])
  /\ result = Err("HasOrderWithEmptyAmount")

\* Book::new was given a single order with a zero amount and rejected it.
C11_WitnessSingle ==
  /\ op = "Book::new"
  /\ Len(input) = 1
  /\ Order_is_empty(input[1])
  /\ result = Err("HasOrderWithEmptyAmount")

\* Book::new_sorted met an empty order and a repeated price within the cap.
C11_WitnessSorted ==
  /\ op = "Book::new_sorted"
  /\ Len(input) >= 2
  /\ input[1].price = input[2].price
  /\ Order_is_empty(input[2])
  /\ result = Err("HasOrderWithEmptyAmount")

\* ---- C12
\* x ranks strictly before y on side q in the summary: by price, then by the
\* larger amount.
RanksBefore(q, x, y) ==
  \/ Better(q, x.order.price, y.order.price)
  \/ x.order.price = y.order.price /\ x.order.amount > y.order.amount

\* At most BEST_ORDER_BOOK_SIZE items, none ranking strictly before an earlier one.
SummarySorted(q, s) ==
  /\ Len(s) <= BEST_ORDER_BOOK_SIZE
  /\ \A i, j \in 1..Len(s) : i < j => ~RanksBefore(q, s[j], s[i])

\* C12: in every state reached by resets with valid books, bids() and
\* asks() emit at most BEST_ORDER_BOOK_SIZE items, ordered by price (descending for bids,
\* ascending for asks) and, at equal prices, by amount descending.
C12_StreamsSorted ==
  op = "publish" => SummarySorted(BID, bids) /\ SummarySorted(ASK, asks)

\* The bids of both exchanges exceed the cap and the emitted ones hold two
\* items of one price and different amounts.
C12_Witness ==
  /\ op = "publish"
  /\ Len(summary[1].bids) + Len(summary[2].bids) > BEST_ORDER_BOOK_SIZE
  /\ Len(bids) = BEST_ORDER_BOOK_SIZE
  /\ \E i, j \in 1..Len(bids) :
       /\ i < j
       /\ bids[i].order.price = bids[j].order.price
       /\ bids[i].order.amount > bids[j].order.amount

\* ---- C13
\* The levels stored on side q, each tagged with the exchange of its slot.
Stored(q) ==
  UNION {{SummaryOrder(e, o) :
            o \in Range(IF q = ASK THEN summary[Ordinal(e)].asks
                        ELSE summary[Ordinal(e)].bids)} : e \in Exchange}

\* s is the top BEST_ORDER_BOOK_SIZE of the stored levels of side q.
TopOfStored(q, s) ==
  /\ Range(s) \subseteq Stored(q)
  /\ \A i, j \in 1..Len(s) : i # j => s[i] # s[j]
  /\ Len(s) = Min(BEST_ORDER_BOOK_SIZE, Cardinality(Stored(q)))
  /\ \A x \in Stored(q) \ Range(s) : \A y \in Range(s) : ~RanksBefore(q, x, y)

\* C13: bids() and asks() emit exactly the top BEST_ORDER_BOOK_SIZE of the levels stored on
\* their side over all exchanges: each item is a level of the slot of the
\* exchange it is tagged with, none comes twice, and no omitted level ranks
\* strictly before an emitted one.
C13_StreamsAreTopOfUnion ==
  op = "publish" => TopOfStored(BID, bids) /\ TopOfStored(ASK, asks)

\* Both exchanges contribute to the emitted asks and a stored ask is left out.
C13_Witness ==
  /\ op = "publish"
  /\ \E i, j \in 1..Len(asks) : asks[i].exchange # asks[j].exchange
  /\ Stored(ASK) \ Range(asks) # {}

\* ---- C14
\* C14: a reset of exchange E leaves the slot of every other exchange as it
\* was.
C14_ResetFrame ==
  [][op' = "reset" =>
       \A e \in Exchange :
         e # exchange' => summary'[Ordinal(e)] = summary[Ordinal(e)]]_vars

\* Binance was reset to non-empty books while Bitstamp holds books of its own.
C14_Witness ==
  /\ op = "reset"
  /\ exchange = "Binance"
  /\ summary[Ordinal("Binance")].bids # <<>>
  /\ summary[Ordinal("Bitstamp")].bids # <<>>
  /\ summary[Ordinal("Bitstamp")].bids # summary[Ordinal("Binance")].bids

\* ---- C15
\* The items of s tagged with exchange e, as orders.
OrdersOf(e, s) == {s[i].order : i \in {k \in 1..Len(s) : s[k].exchange = e}}

\* C15: the slot of each exchange holds the books of its most recent reset,
\* or empty books if it was never reset, and bids() and asks() emit for it
\* only levels of those books.
C15_LatestResetOnly ==
  \A e \in Exchange :
    /\ summary[Ordinal(e)] =
         [exchange |-> e, bids |-> latest[e].bids, asks |-> latest[e].asks]
    /\ ~latest[e].reset => latest[e].bids = <<>> /\ latest[e].asks = <<>>
    /\ op = "publish" =>
         /\ OrdersOf(e, bids) \subseteq Range(latest[e].bids)
         /\ OrdersOf(e, asks) \subseteq Range(latest[e].asks)

\* Both exchanges were reset, Bitstamp to books with asks and no bids, and
\* the streams were queried.
C15_Witness ==
  /\ op = "publish"
  /\ latest["Binance"].reset /\ latest["Bitstamp"].reset
  /\ latest["Bitstamp"].bids = <<>>
  /\ latest["Bitstamp"].asks # <<>>
  /\ latest["Binance"].bids # <<>>
  /\ asks # <<>>

\* ---- C16
\* The orders of a book as the summary emits them for exchange e.
Tagged(e, orders) == [i \in 1..Len(orders) |-> SummaryOrder(e, orders[i])]

\* Every slot but that of e holds empty books.
OnlyExchange(e) ==
  \A f \in Exchange \ {e} :
    summary[Ordinal(f)].bids = <<>> /\ summary[Ordinal(f)].asks = <<>>

\* C16: when the slots of all exchanges but one hold empty books, bids() and
\* asks() emit that exchange's stored bids and asks, in order, tagged with it.
C16_SingleExchange ==
  \A e \in Exchange :
    (op = "publish" /\ OnlyExchange(e)) =>
      /\ bids = Tagged(e, summary[Ordinal(e)].bids)
      /\ asks = Tagged(e, summary[Ordinal(e)].asks)

\* Only Bitstamp holds books, two levels a side, and the streams were queried.
C16_Witness ==
  /\ op = "publish"
  /\ OnlyExchange("Bitstamp")
  /\ Len(summary[Ordinal("Bitstamp")].bids) >= 2
  /\ Len(summary[Ordinal("Bitstamp")].asks) >= 2
  /\ Len(bids) >= 2

\* ---- C17
\* Every exchange holds what default() or a reset to (empty, empty) leaves.
AllEmpty == \A e \in Exchange : latest[e].bids = <<>> /\ latest[e].asks = <<>>

\* C17: a fresh summary, and one whose exchanges were all reset to empty
\* books, emits no bids and no asks, and spread over the two streams is NaN.
C17_EmptySummary ==
  (op = "publish" /\ AllEmpty) => bids = <<>> /\ asks = <<>> /\ spread = NAN

\* Every exchange was reset, the last time to empty books, and the streams
\* were queried.
C17_Witness ==
  /\ op = "publish"
  /\ \A e \in Exchange : latest[e].reset
  /\ AllEmpty
  /\ spread = NAN

\* The summary was queried as default() left it.
C17_WitnessFresh ==
  /\ op = "publish"
  /\ \A e \in Exchange : ~latest[e].reset
  /\ spread = NAN

\* ---- C18
\* C18: spread always returns, and its value follows from the first item of
\* each stream alone: NaN for two empty streams, +infinity when only the
\* asks are empty, -infinity when only the bids are empty, and otherwise the
\* price of the first bid minus the price of the first ask.
C18_SpreadCases ==
  op = "publish" =>
    /\ (bids = <<>> /\ asks = <<>>) => spread = NAN
    /\ (bids # <<>> /\ asks = <<>>) => spread = INFINITY
    /\ (bids = <<>> /\ asks # <<>>) => spread = NEG_INFINITY
    /\ (bids # <<>> /\ asks # <<>>) =>
         spread = Finite(bids[1].order.price - asks[1].order.price)

\* Both streams hold items of both exchanges and the best bid is below the
\* best ask.
C18_Witness ==
  /\ op = "publish"
  /\ Len(bids) >= 2 /\ Len(asks) >= 2
  /\ \E i, j \in 1..Len(bids) : bids[i].exchange # bids[j].exchange
  /\ \E i, j \in 1..Len(asks) : asks[i].exchange # asks[j].exchange
  /\ bids[1].order.price < asks[1].order.price
  /\ spread = Finite(bids[1].order.price - asks[1].order.price)

\* There are bids and no asks.
C18_WitnessNoAsks == op = "publish" /\ bids # <<>> /\ asks = <<>> /\ spread = INFINITY

\* There are asks and no bids.
C18_WitnessNoBids == op = "publish" /\ bids = <<>> /\ asks # <<>> /\ spread = NEG_INFINITY

C20_PriceNew ==
  op = "Price::new" =>
    /\ result.ok <=> (input.class = "Normal" /\ ~input.negative)
    /\ result.ok => result.val = input
    /\ ~result.ok => result.err = input

\* A positive subnormal was handed to Price::new and came back as the error.
C20_Witness ==
  /\ op = "Price::new"
  /\ input.class = "Subnormal"
  /\ ~input.negative
  /\ result = Err(input)

\* A positive normal float was accepted.
C20_WitnessAccepted ==
  /\ op = "Price::new"
  /\ input.class = "Normal"
  /\ ~input.negative
  /\ result = Ok(input)

\* ---- C21
\* C21: Amount::new(x) succeeds exactly when x is finite, not negative, and
\* normal or +0; NaN, the infinities, the subnormals, the negatives and the
\* negative zero are rejected.
C21_AmountNew ==
  op = "Amount::new" =>
    /\ result.ok <=> (input.class \in {"Normal", "Zero"} /\ ~input.negative)
    /\ result.ok => result.val = input
    /\ ~result.ok => result.err = input

\* ---- C22
\* C22: updating an empty book with a diff yields the diff's orders of
\* non-zero amount, in the diff's order, cut to the first COUNT.
C22_UpdateOfEmptyBook ==
  (op = "update" /\ before = <<>>) =>
    book = Take(SelectSeq(diff, LAMBDA o : o.amount # 0), COUNT)

\* An empty book met a diff that leads with a zero amount and carries COUNT
\* orders after it.
C22_Witness ==
  /\ op = "update"
  /\ before = <<>>
  /\ Len(diff) > COUNT
  /\ diff[1].amount = 0
  /\ Len(book) = COUNT

\* An empty book met a diff with more than COUNT orders of non-zero amount.
C22_WitnessCut ==
  /\ op = "update"
  /\ before = <<>>
  /\ Cardinality(Carried(diff)) > COUNT
  /\ Len(book) = COUNT

\* ---- C23
\* The levels that survive the update of b with d.
Surviving(b, d) == Untouched(b, d) \cup Carried(d)

\* C23: the cap of update counts surviving levels only.  The result holds
\* min(COUNT, surviving levels) orders: a surviving level is kept when fewer
\* than COUNT surviving levels rank before it and dropped otherwise, however
\* many zero-amount orders and deleted levels rank before it.
C23_CapAfterDeletions ==
  op = "update" =>
    /\ Len(book) = Min(COUNT, Cardinality(Surviving(before, diff)))
    /\ \A o \in Surviving(before, diff) :
         o \in Range(book) <=> Cardinality(AheadOf(quote, before, diff, o.price)) < COUNT

\* A full book lost its best level to the diff, and a level the diff brought
\* in behind the book's last one fills the freed place.
C23_Witness ==
  /\ op = "update"
  /\ Len(before) = COUNT
  /\ \E o \in Range(diff) :
       /\ Order_is_empty(o)
       /\ o.price = before[1].price
  /\ \E o \in Carried(diff) :
       /\ Better(quote, before[COUNT].price, o.price)
       /\ o \in Range(book)
  /\ Len(book) = COUNT

\* More than COUNT levels survive and the last of them is dropped.
C23_WitnessDropped ==
  /\ op = "update"
  /\ Cardinality(Surviving(before, diff)) > COUNT
  /\ Len(book) = COUNT

\* ---- C24
\* C24: Book::new_sorted(V) accepts every V whose first COUNT orders are in
\* Side order with distinct prices and non-zero amounts, and returns those
\* orders, whatever stands beyond position COUNT.
C24_NewSortedValidatesCap ==
  (/\ op = "Book::new_sorted"
   /\ SideSorted(quote, Take(input, COUNT))
   /\ Carried(Take(input, COUNT)) = Range(Take(input, COUNT)))
    => result = Ok(Take(input, COUNT))

\* ---- C25

TwinsTogether(q, s) ==
  \A i \in 1..Len(s) :
    \A x \in Stored(q) :
      (x.order = s[i].order /\ x.exchange # s[i].exchange) =>
        \/ i > 1 /\ s[i - 1] = x
        \/ i < Len(s) /\ s[i + 1] = x
        \/ i = BEST_ORDER_BOOK_SIZE /\ x \notin Range(s)

EmittedOf(e, s) ==
  LET t == SelectSeq(s, LAMBDA x : x.exchange = e)
  IN  [i \in 1..Len(t) |-> t[i].order]

\* s is an initial segment of t.
IsPrefixOf(s, t) == Len(s) <= Len(t) /\ s = SubSeq(t, 1, Len(s))

C27_NotSortedOnFirstCount ==
  op = "Book::new_sorted" =>
    /\ result = Err("OrdersNotSortedAccordingToQuoteType")
         <=> ~InSideOrder(quote, Take(input, COUNT))
    /\ (/\ InSideOrder(quote, Take(input, COUNT))
        /\ DistinctPrices(input)
        /\ \A i \in 1..Len(input) : input[i].amount # 0)
         => result.ok

\* The first COUNT orders are out of order and one of them is empty: the
\* order check speaks first.
C27_Witness ==
  /\ op = "Book::new_sorted"
  /\ ~InSideOrder(quote, Take(input, COUNT))
  /\ \E i \in 1..Min(Len(input), COUNT) : input[i].amount = 0
  /\ result = Err("OrdersNotSortedAccordingToQuoteType")

\* The first COUNT orders are out of order and a price occurs twice in the
\* vector: the order check speaks first.
C27_WitnessRepeated ==
  /\ op = "Book::new_sorted"
  /\ ~InSideOrder(quote, Take(input, COUNT))
  /\ ~DistinctPrices(input)
  /\ result = Err("OrdersNotSortedAccordingToQuoteType")

\* Only the order past position COUNT is out of order, and the vector is
\* accepted.
C27_WitnessTail ==
  /\ op = "Book::new_sorted"
  /\ Len(input) > COUNT
  /\ InSideOrder(quote, Take(input, COUNT))
  /\ ~InSideOrder(quote, input)
  /\ result.ok

\* ---- C28
\* The message sent last on the channel.
LastSent(ch) == ch[Len(ch)]

\* C28: when the feed has handled a full-snapshot event with success, the
\* subscription stores the books of the snapshot, the pair it has just sent,
\* and a depth update handled with success right after a snapshot sends the
\* snapshot's books updated with the event's diffs.
C28_SnapshotIsStored ==
  [][/\ (input.kind = "orderBook" /\ op' = "order_book" /\ result'.ok) =>
          /\ Ok(state'.bids) \in OrderBook_new(BID, collect_orders(input.bids).val)
          /\ Ok(state'.asks) \in OrderBook_new(ASK, collect_orders(input.asks).val)
          /\ state' = LastSent(tx')
     /\ (/\ input.kind = "depthUpdate"
         /\ op = "order_book" /\ result.ok
         /\ op' = "depth_update" /\ result'.ok) =>
          \E b \in OrderBookDiff_new(BID, collect_orders(input.bids).val),
             a \in OrderBookDiff_new(ASK, collect_orders(input.asks).val) :
            LastSent(tx') =
              [bids |-> OrderBook_update(BID, LastSent(tx).bids, b.val),
               asks |-> OrderBook_update(ASK, LastSent(tx).asks, a.val)]]_vars

\* ---- C29
\* One side of an event fails validation: an invalid price or amount, or a
\* price that occurs twice.
FailsValidation(v) ==
  \/ \E i \in 1..Len(v) : ~Price_new(v[i].price).ok \/ ~Amount_new(v[i].quantity).ok
  \/ \E i, j \in 1..Len(v) : i # j /\ v[i].price = v[j].price

\* C29: a depth update whose bids or asks fail validation ends in a feed
\* error, sends nothing on the channel and leaves the stored bids and the
\* stored asks as they were.
C29_FailedUpdateChangesNothing ==
  [][(/\ input.kind = "depthUpdate"
      /\ op' = "depth_update"
      /\ FailsValidation(input.bids) \/ FailsValidation(input.asks)) =>
       /\ result' = Binance
       /\ tx' = tx
       /\ state' = state]_vars

\* ---- C30
\* C30: a call of Config::new(url) returns, and what it returns is the
\* configuration with that url, no subscription and no partial-depth symbol.
C30_ConfigNewReturns ==
  (op = "Config::new") ~>
    (/\ op = "returned"
     /\ result = Ok([url |-> input, subscriptions |-> {}, depth_order_book |-> ""]))

\* ---- C31
\* The symbol of the call has an order-book subscription in its Config.
Subscribed(call) ==
  /\ call.symbol \in DOMAIN call.self.subscriptions
  /\ call.self.subscriptions[call.symbol].some

\* The call asks for a partial-depth stream and its Config has one already.
SecondPartialDepth(call) == call.depth # "None" /\ call.self.depth_order_book # ""

\* C31: subscribe_order_book for a symbol with no order-book subscription
\* yet succeeds and records the subscription under that symbol; it is
\* rejected only for a symbol that is subscribed already or for a second
\* partial-depth subscription.
C31_SubscribeNewSymbol ==
  op = "subscribe_order_book" =>
    /\ ~result.ok <=> (Subscribed(input) \/ SecondPartialDepth(input))
    /\ result.ok =>
         /\ input.symbol \in DOMAIN result.val.subscriptions
         /\ result.val.subscriptions[input.symbol] = SomeStream(input.period, input.depth)

\* ---- C32
\* C32: the stream name of an order-book subscription carries the depth 5,
\* 10 or 20 of its configuration, or none, and the period in milliseconds,
\* 1000 for Normal and 100 for Fast.
C32_StreamNameCarriesValues ==
  (op = "connect" /\ result.ok) =>
    \A i \in 1..Len(result.val) :
      LET st == input.self.subscriptions[result.val[i].symbol]
      IN  /\ result.val[i].name.period = (IF st.period = "Normal" THEN 1000 ELSE 100)
          /\ result.val[i].name.depth =
               (CASE st.depth = "None" -> <<>>
                  [] st.depth = "Small" -> <<5>>
                  [] st.depth = "Medium" -> <<10>>
                  [] st.depth = "Large" -> <<20>>)

\* ---- C33
\* C33: after any sequence of updates of the empty book, every level of the
\* depth-capped book is a level, price and amount, of the book the same diffs
\* give with no depth cap.
C33_CappedWithinUncapped ==
  Range(book) \subseteq Range(ref.levels)

\* An update deleted a level of the capped book, which is now shorter than
\* the cap while the uncapped book holds a level it lacks.
C33_Witness ==
  /\ op = "update"
  /\ \E i \in 1..Len(diff) :
       diff[i].amount = 0 /\ diff[i].price \in PricesOf(before)
  /\ Len(book) < COUNT
  /\ Range(ref.levels) \ Range(book) # {}

\* ---- C34
\* C34: Book::new gives the same outcome, the same book or the same error,
\* for every arrangement of the orders of its input.
C34_NewIgnoresArrangement ==
  op = "Book::new" =>
    \A p \in Arrangements(input) : OrderBook_new(quote, p) = {result}

\* ---- C35
\* C35: book.update(d).update(d) = book.update(d) for every book and every
\* diff d, whatever d deletes, replaces or inserts and whatever the depth
\* cap cuts.
C35_IdempotentForEveryDiff ==
  (n = 2 /\ diff = diff0) => book = before

\* The same diff applied twice, where it deletes one level of the book,
\* replaces the amount of another and inserts a third.
C35_Witness ==
  /\ n = 2
  /\ diff = diff0
  /\ \E i, j, k \in 1..Len(diff0) :
       /\ diff0[i].amount = 0 /\ diff0[i].price \in PricesOf(before0)
       /\ diff0[j].amount # 0 /\ diff0[j].price \in PricesOf(before0)
       /\ diff0[j].amount # AmountAt(before0, diff0[j].price)
       /\ diff0[k].amount # 0 /\ diff0[k].price \notin PricesOf(before0)
  /\ book = before

\* The same diff applied twice, where it replaces a level of the book and
\* the merge runs past the cap.
C35_WitnessCut ==
  /\ n = 2
  /\ diff = diff0
  /\ PricesOf(diff0) \cap PricesOf(before0) # {}
  /\ Len(FilterNonEmpty(Merger(quote, before0, diff0))) > COUNT
  /\ book = before

\* ---- C36
\* C36: before the filter the Merger emits, in Side order, one order for
\* every price of the book or the diff: the diff's order at every price of
\* the diff, zero amounts included, and the book's order at every other
\* price; a book merged with its zeroed copy gives the zeroed copy.
C36_MergerOnePerPrice ==
  op = "update" =>
    LET m == Merger(quote, before, diff)
    IN  /\ SideSorted(quote, m)
        /\ PricesOf(m) = PricesOf(before) \cup PricesOf(diff)
        /\ \A i \in 1..Len(m) :
             IF m[i].price \in PricesOf(diff)
               THEN m[i] \in Range(diff)
             ELSE m[i] \in Range(before)
        /\ Merger(quote, before, EmptyAmount(before)) = EmptyAmount(before)

\* The diff holds a zero amount at a price of the book and an order at a
\* price the book lacks; the Merger emits both, and more than COUNT orders.
C36_Witness ==
  /\ op = "update"
  /\ \E o \in Range(diff) : Order_is_empty(o) /\ o.price \in PricesOf(before)
  /\ \E o \in Range(diff) :
       /\ o.price \notin PricesOf(before)
       /\ o \in Range(Merger(quote, before, diff))
  /\ \E o \in Range(diff) :
       /\ Order_is_empty(o)
       /\ o \in Range(Merger(quote, before, diff))
  /\ Len(Merger(quote, before, diff)) > COUNT
  /\ before # <<>>

====
